---- MODULE Spec2Model ----
(***************************************************************************)
(* Subtitle pipeline of src/media/subtitle_generator.py: the word aligner  *)
(* (_align_words_with_timing), the phrase segmenter loops of karaoke and   *)
(* chunk mode, the segment-timing path and the uniform fallback, as one    *)
(* SubtitleGenerator object driven through generate_from_audio.            *)
(*                                                                         *)
(* Strings are sequences of one-character strings, so that lower(),        *)
(* strip(), split(), join(), startswith() and endswith() are computed.     *)
(* Times are exact rationals [n, d] (seconds); float rounding is not       *)
(* modelled.                                                               *)
(***************************************************************************)
EXTENDS Integers, Sequences, FiniteSets, TLC

\* ------------------------------------------------------------ bounds
\* Longest token sequence of the freely enumerated ASR results.
MaxTokens == 2
\* Longest canonical script of the freely enumerated scripts.
MaxWords == 3
\* Longest canonical script of the long scripts (reaches 9- and 10-word chunks).
MaxLong == 11
\* Most sentence-ending words in a long script.
MaxPunct == 2
\* Most word-less segments of an ASR result.
MaxSegments == 2
MaxReply == 3
MaxNumSegments == 3
MaxDirectTokens == 4

\* ------------------------------------------------- program constants
\* words_per_phrase of karaoke mode.
KaraokeWordsPerPhrase == 4
\* words_per_chunk of chunk mode (both of its paths).
ChunkWordsPerChunk == 9
\* words_per_chunk of the uniform fallback.
FallbackWordsPerChunk == 10
\* "Look ahead up to 3 words".
LookAhead == 3

\* ------------------------------------------------------------ rationals
RECURSIVE Gcd(_, _)
Gcd(a, b) == IF b = 0 THEN a ELSE Gcd(b, a % b)
Abs(a) == IF a < 0 THEN -a ELSE a

\* The rational n/d (d > 0) in lowest terms, so that equal values are equal records.
Q(n, d) == LET g == Gcd(Abs(n), d) IN [n |-> n \div g, d |-> d \div g]
QInt(k) == Q(k, 1)
QAdd(a, b) == Q(a.n * b.d + b.n * a.d, a.d * b.d)
QSub(a, b) == Q(a.n * b.d - b.n * a.d, a.d * b.d)
QMulInt(k, a) == Q(k * a.n, a.d)
QDivInt(a, k) == Q(a.n, a.d * k)
QLe(a, b) == a.n * b.d <= b.n * a.d
QLt(a, b) == a.n * b.d < b.n * a.d
QEq(a, b) == a.n * b.d = b.n * a.d

\* ------------------------------------------------------------ strings
Whitespace == {" "}
StripSet == {".", ",", "!", "?", ":", ";"}
SentenceEnd == {".", "!", "?", ":"}

LowerChar(c) == IF c = "A" THEN "a" ELSE IF c = "B" THEN "b" ELSE IF c = "C" THEN "c" ELSE c
Lower(s) == [i \in 1..Len(s) |-> LowerChar(s[i])]

RECURSIVE LStrip(_, _)
LStrip(s, chars) ==
    IF s # <<>> /\ Head(s) \in chars THEN LStrip(Tail(s), chars) ELSE s

RECURSIVE RStrip(_, _)
RStrip(s, chars) ==
    IF s # <<>> /\ s[Len(s)] \in chars THEN RStrip(SubSeq(s, 1, Len(s) - 1), chars) ELSE s

Strip(s, chars) == RStrip(LStrip(s, chars), chars)

Take(s, k) == SubSeq(s, 1, IF Len(s) < k THEN Len(s) ELSE k)

StartsWith(s, p) == Len(p) <= Len(s) /\ SubSeq(s, 1, Len(p)) = p

EndsWithAny(s, chars) == s # <<>> /\ s[Len(s)] \in chars

\* ' '.join(words)
RECURSIVE Join(_)
Join(words) ==
    IF words = <<>> THEN <<>>
    ELSE IF Len(words) = 1 THEN words[1]
    ELSE words[1] \o <<" ">> \o Join(Tail(words))

\* str.split(): the maximal runs of non-whitespace characters.
RECURSIVE SplitRec(_, _, _)
SplitRec(text, cur, acc) ==
    IF text = <<>> THEN (IF cur = <<>> THEN acc ELSE Append(acc, cur))
    ELSE IF Head(text) \in Whitespace
         THEN SplitRec(Tail(text), <<>>, IF cur = <<>> THEN acc ELSE Append(acc, cur))
         ELSE SplitRec(Tail(text), Append(cur, Head(text)), acc)

Split(text) == SplitRec(text, <<>>, <<>>)

RECURSIVE Concat(_)
Concat(ss) == IF ss = <<>> THEN <<>> ELSE Head(ss) \o Concat(Tail(ss))

Min(a, b) == IF a < b THEN a ELSE b

\* "Subtitle generation failed", the text of the fallback without a script.
FailedText ==
    <<"S","u","b","t","i","t","l","e"," ","g","e","n","e","r","a","t","i","o","n",
      " ","f","a","i","l","e","d">>

\* "[Subtitle generation failed]", the text of the placeholder cue.
PlaceholderText == <<"[">> \o FailedText \o <<"]">>

\* ------------------------------------------------------------ scores
\* Similarity scores and the match threshold, in tenths.
ScoreExact == 10
ScorePrefix == 7
ScoreNone == 0
MatchThreshold == 5

\* A variant of the score that compares two leading characters, not three.
ScoreTwoCharPrefix(whisper_word_raw, corrected_word) ==
    LET whisper_word == Lower(whisper_word_raw)
        corrected_lower == Strip(Lower(corrected_word), StripSet)
    IN  IF whisper_word = corrected_lower THEN ScoreExact
        ELSE IF StartsWith(whisper_word, Take(corrected_lower, 2))
                \/ StartsWith(corrected_lower, Take(whisper_word, 2))
             THEN ScorePrefix
             ELSE ScoreNone

\* The score of one token against one canonical word.
Score(whisper_word_raw, corrected_word) ==
    LET whisper_word == Lower(whisper_word_raw)
        corrected_lower == Strip(Lower(corrected_word), StripSet)
    IN  IF whisper_word = corrected_lower THEN ScoreExact
        ELSE IF StartsWith(whisper_word, Take(corrected_lower, 3))
                \/ StartsWith(corrected_lower, Take(whisper_word, 3))
             THEN ScorePrefix
             ELSE ScoreNone

\* A variant of the look-ahead loop in which an equal score replaces the best
\* one: the latest token of the highest score is selected.
RECURSIVE BestMatchLatest(_, _, _, _, _)
BestMatchLatest(whisper_words, corrected_word, j, hi, best) ==
    IF j >= hi THEN best
    ELSE LET score == Score(whisper_words[j + 1].word, corrected_word)
         IN  BestMatchLatest(whisper_words, corrected_word, j + 1, hi,
                             IF score >= best.score THEN [idx |-> j, score |-> score]
                             ELSE best)

\* The look-ahead loop: j runs over [whisper_idx, min(whisper_idx + 3, len)),
\* 0-based; a strictly higher score replaces the best one.
RECURSIVE BestMatch(_, _, _, _, _)
BestMatch(whisper_words, corrected_word, j, hi, best) ==
    IF j >= hi THEN best
    ELSE LET score == Score(whisper_words[j + 1].word, corrected_word)
         IN  BestMatch(whisper_words, corrected_word, j + 1, hi,
                       IF score > best.score THEN [idx |-> j, score |-> score] ELSE best)

\* A variant of AlignWord that leaves the cursor on the token it has just used.
AlignWordReusingToken(whisper_words, corrected_words, i, whisper_idx) ==
    LET corrected_word == corrected_words[i + 1]
        total_duration ==
            QSub(whisper_words[Len(whisper_words)].end, whisper_words[1].start)
        time_per_word == QDivInt(total_duration, Len(corrected_words))
        best == BestMatch(whisper_words, corrected_word, whisper_idx,
                          Min(whisper_idx + LookAhead, Len(whisper_words)),
                          [idx |-> whisper_idx, score |-> 0])
    IN  IF best.score > MatchThreshold /\ best.idx < Len(whisper_words)
        THEN [pair |-> [corrected_word |-> corrected_word,
                        start |-> whisper_words[best.idx + 1].start,
                        end |-> whisper_words[best.idx + 1].end],
              matched |-> TRUE,
              whisper_idx |-> best.idx]
        ELSE LET start_time == QAdd(whisper_words[1].start, QMulInt(i, time_per_word))
             IN  [pair |-> [corrected_word |-> corrected_word,
                            start |-> start_time,
                            end |-> QAdd(start_time, time_per_word)],
                  matched |-> FALSE,
                  whisper_idx |-> whisper_idx]

\* A variant of AlignWord that interpolates with the time per token: with more
\* canonical words than tokens its timing runs past the last token.
AlignWordPerTokenTime(whisper_words, corrected_words, i, whisper_idx) ==
    LET corrected_word == corrected_words[i + 1]
        total_duration ==
            QSub(whisper_words[Len(whisper_words)].end, whisper_words[1].start)
        time_per_word == QDivInt(total_duration, Len(whisper_words))
        best == BestMatch(whisper_words, corrected_word, whisper_idx,
                          Min(whisper_idx + LookAhead, Len(whisper_words)),
                          [idx |-> whisper_idx, score |-> 0])
    IN  IF best.score > MatchThreshold /\ best.idx < Len(whisper_words)
        THEN [pair |-> [corrected_word |-> corrected_word,
                        start |-> whisper_words[best.idx + 1].start,
                        end |-> whisper_words[best.idx + 1].end],
              matched |-> TRUE,
              whisper_idx |-> best.idx + 1]
        ELSE LET start_time == QAdd(whisper_words[1].start, QMulInt(i, time_per_word))
             IN  [pair |-> [corrected_word |-> corrected_word,
                            start |-> start_time,
                            end |-> QAdd(start_time, time_per_word)],
                  matched |-> FALSE,
                  whisper_idx |-> whisper_idx]

\* One canonical word of the unequal-length path: the aligned pair and the
\* cursor after it.
AlignWord(whisper_words, corrected_words, i, whisper_idx) ==
    LET corrected_word == corrected_words[i + 1]
        total_duration ==
            QSub(whisper_words[Len(whisper_words)].end, whisper_words[1].start)
        time_per_word == QDivInt(total_duration, Len(corrected_words))
        best == BestMatch(whisper_words, corrected_word, whisper_idx,
                          Min(whisper_idx + LookAhead, Len(whisper_words)),
                          [idx |-> whisper_idx, score |-> 0])
    IN  IF best.score > MatchThreshold /\ best.idx < Len(whisper_words)
        THEN [pair |-> [corrected_word |-> corrected_word,
                        start |-> whisper_words[best.idx + 1].start,
                        end |-> whisper_words[best.idx + 1].end],
              matched |-> TRUE,
              whisper_idx |-> best.idx + 1]
        ELSE LET start_time == QAdd(whisper_words[1].start, QMulInt(i, time_per_word))
             IN  [pair |-> [corrected_word |-> corrected_word,
                            start |-> start_time,
                            end |-> QAdd(start_time, time_per_word)],
                  matched |-> FALSE,
                  whisper_idx |-> whisper_idx]

\* A variant of the walk that stops with the tokens: canonical words past the
\* token count get no aligned word.
RECURSIVE AlignLoopUpToTokens(_, _, _, _, _)
AlignLoopUpToTokens(whisper_words, corrected_words, i, whisper_idx, aligned) ==
    IF i >= Len(corrected_words) \/ i >= Len(whisper_words) THEN aligned
    ELSE LET r == AlignWord(whisper_words, corrected_words, i, whisper_idx)
         IN  AlignLoopUpToTokens(whisper_words, corrected_words, i + 1, r.whisper_idx,
                                 Append(aligned, r.pair))

\* The walk over the canonical words of the unequal-length path.
RECURSIVE AlignLoop(_, _, _, _, _)
AlignLoop(whisper_words, corrected_words, i, whisper_idx, aligned) ==
    IF i >= Len(corrected_words) THEN aligned
    ELSE LET r == AlignWord(whisper_words, corrected_words, i, whisper_idx)
         IN  AlignLoop(whisper_words, corrected_words, i + 1, r.whisper_idx,
                       Append(aligned, r.pair))

\* The walk again, keeping for every canonical word the cursor before it,
\* whether a token was taken, and the cursor after it.
RECURSIVE AlignTrace(_, _, _, _, _)
AlignTrace(whisper_words, corrected_words, i, whisper_idx, trace) ==
    IF i >= Len(corrected_words) THEN trace
    ELSE LET r == AlignWord(whisper_words, corrected_words, i, whisper_idx)
         IN  AlignTrace(whisper_words, corrected_words, i + 1, r.whisper_idx,
                        Append(trace, [cursor |-> whisper_idx, matched |-> r.matched,
                                       whisper_idx |-> r.whisper_idx]))

\* Whether _align_words_with_timing raises: whisper_words[-1] of an empty list
\* (IndexError) or the division by len(corrected_words) = 0 (ZeroDivisionError).
AlignRaises(whisper_words, corrected_words) ==
    /\ Len(whisper_words) # Len(corrected_words)
    /\ (whisper_words = <<>> \/ corrected_words = <<>>)

\* A variant without the fast path: every input is matched by similarity.
AlignWordsAlwaysMatching(whisper_words, corrected_words) ==
    AlignLoop(whisper_words, corrected_words, 0, 0, <<>>)

\* _align_words_with_timing, where it does not raise.
AlignWordsWithTiming(whisper_words, corrected_words) ==
    IF Len(whisper_words) = Len(corrected_words)
    THEN [i \in 1..Len(corrected_words) |->
            [corrected_word |-> corrected_words[i],
             start |-> whisper_words[i].start,
             end |-> whisper_words[i].end]]
    ELSE AlignLoop(whisper_words, corrected_words, 0, 0, <<>>)

\* ------------------------------------------------------------ cues
\* pysrt's SubRipTime, as its ordinal in milliseconds.
SubRipTime(hours, minutes, seconds, milliseconds) ==
    hours * 3600000 + minutes * 60000 + seconds * 1000 + milliseconds

\* The four fields _create_subtitle_item derives from a time in seconds.
TimeFields(t) ==
    LET whole == t.n \div t.d
    IN  SubRipTime(whole \div 3600, (whole % 3600) \div 60, whole % 60,
                   ((t.n % t.d) * 1000) \div t.d)

CreateSubtitleItem(index, start, end, text) ==
    [index |-> index, start |-> TimeFields(start), end |-> TimeFields(end), text |-> text]

\* The cue as handed to _create_subtitle_item.
Cue(index, start, end, text) ==
    [index |-> index, start |-> start, end |-> end, text |-> text]

\* A variant without the break at sentence-ending punctuation.
RECURSIVE PhraseWordsNoBreak(_, _, _, _, _)
PhraseWordsNoBreak(aligned, idx, j, words_per_phrase, phrase_words) ==
    IF j >= words_per_phrase \/ idx + j >= Len(aligned) THEN phrase_words
    ELSE PhraseWordsNoBreak(aligned, idx, j + 1, words_per_phrase,
                            Append(phrase_words, aligned[idx + j + 1].corrected_word))

\* A variant whose range is one too long: range(words_per_phrase + 1).
RECURSIVE PhraseWordsOneMore(_, _, _, _, _)
PhraseWordsOneMore(aligned, idx, j, words_per_phrase, phrase_words) ==
    IF j > words_per_phrase \/ idx + j >= Len(aligned) THEN phrase_words
    ELSE LET pair == aligned[idx + j + 1]
             next == Append(phrase_words, pair.corrected_word)
         IN  IF EndsWithAny(pair.corrected_word, SentenceEnd) THEN next
             ELSE PhraseWordsOneMore(aligned, idx, j + 1, words_per_phrase, next)

\* The inner for loop of the phrase segmenter: the words of the phrase that
\* starts at idx (0-based), at most words_per_phrase of them, closed by the
\* first word that ends a sentence.
RECURSIVE PhraseWords(_, _, _, _, _)
PhraseWords(aligned, idx, j, words_per_phrase, phrase_words) ==
    IF j >= words_per_phrase \/ idx + j >= Len(aligned) THEN phrase_words
    ELSE LET pair == aligned[idx + j + 1]
             next == Append(phrase_words, pair.corrected_word)
         IN  IF EndsWithAny(pair.corrected_word, SentenceEnd) THEN next
             ELSE PhraseWords(aligned, idx, j + 1, words_per_phrase, next)

\* A variant of the segment-timing path that gives every segment ten words, as
\* the uniform fallback does.
RECURSIVE SegmentCuesTenWords(_, _, _, _, _)
SegmentCuesTenWords(segments, corrected_words, i, chunk_idx, out) ==
    IF i >= Len(segments) THEN out
    ELSE LET start_word_idx == i * FallbackWordsPerChunk
             end_word_idx == Min(start_word_idx + FallbackWordsPerChunk, Len(corrected_words))
             chunk_words == SubSeq(corrected_words, start_word_idx + 1, end_word_idx)
         IN  IF chunk_words # <<>>
             THEN SegmentCuesTenWords(segments, corrected_words, i + 1, chunk_idx + 1,
                                      Append(out, Cue(chunk_idx, segments[i + 1].start,
                                                      segments[i + 1].end, Join(chunk_words))))
             ELSE SegmentCuesTenWords(segments, corrected_words, i + 1, chunk_idx, out)

\* The segment-timing path of _generate_chunk_subtitles: segment i (0-based) shows
\* the canonical words [9i, min(9i + 9, W)), when there are any.
RECURSIVE SegmentCues(_, _, _, _, _)
SegmentCues(segments, corrected_words, i, chunk_idx, out) ==
    IF i >= Len(segments) THEN out
    ELSE LET start_word_idx == i * ChunkWordsPerChunk
             end_word_idx == Min(start_word_idx + ChunkWordsPerChunk, Len(corrected_words))
             chunk_words == SubSeq(corrected_words, start_word_idx + 1, end_word_idx)
         IN  IF chunk_words # <<>>
             THEN SegmentCues(segments, corrected_words, i + 1, chunk_idx + 1,
                              Append(out, Cue(chunk_idx, segments[i + 1].start,
                                              segments[i + 1].end, Join(chunk_words))))
             ELSE SegmentCues(segments, corrected_words, i + 1, chunk_idx, out)

\* The chunks of the uniform fallback: words[i:i+10] for i = 0, 10, 20, ...
RECURSIVE FallbackChunks(_, _)
FallbackChunks(words, i) ==
    IF i >= Len(words) THEN <<>>
    ELSE <<Join(SubSeq(words, i + 1, Min(i + FallbackWordsPerChunk, Len(words))))>>
         \o FallbackChunks(words, i + FallbackWordsPerChunk)

\* A variant of the fallback that gives every cue the time of one word.
FallbackCuesPerWord(text, duration) ==
    LET chunks == FallbackChunks(Split(text), 0)
        time_per_chunk ==
            IF chunks # <<>> THEN QDivInt(duration, Len(Split(text))) ELSE duration
    IN  [k \in 1..Len(chunks) |->
            Cue(k, QMulInt(k - 1, time_per_chunk), QMulInt(k, time_per_chunk), chunks[k])]

\* The cues of the uniform fallback over `duration` seconds.
FallbackCues(text, duration) ==
    LET chunks == FallbackChunks(Split(text), 0)
        time_per_chunk == IF chunks # <<>> THEN QDivInt(duration, Len(chunks)) ELSE duration
    IN  [k \in 1..Len(chunks) |->
            Cue(k, QMulInt(k - 1, time_per_chunk), QMulInt(k, time_per_chunk), chunks[k])]

ItemsOf(cs) == [k \in 1..Len(cs) |-> CreateSubtitleItem(cs[k].index, cs[k].start, cs[k].end, cs[k].text)]

\* The whisper_words collected from the segments that carry 'words'.
RECURSIVE CollectWords(_)
CollectWords(segments) ==
    IF segments = <<>> THEN <<>>
    ELSE (IF Head(segments).has_words
          THEN [k \in 1..Len(Head(segments).words) |->
                  [word |-> Strip(Head(segments).words[k].word, Whitespace),
                   start |-> Head(segments).words[k].start,
                   end |-> Head(segments).words[k].end]]
          ELSE <<>>)
         \o CollectWords(Tail(segments))

\* ------------------------------------------------------------ inputs
\* Canonical words: one that ends a sentence and needs lower() and strip() to
\* equal a token, one that a token prefixes, one no token resembles, and one
\* that is punctuation only.
CanonVocab == {<<"A", "b", ".">>, <<"c">>, <<"x">>, <<"!">>}

\* Token words as the recogniser gives them.
TokenWords == {<<" ", "a", "b">>, <<"c", "x">>}

\* A token follows the one before it after `gap` seconds and lasts `dur` seconds.
TokenKinds == [word : TokenWords, gap : {0, 2}, dur : {1}]

RECURSIVE BuildTokens(_, _)
BuildTokens(kinds, t) ==
    IF kinds = <<>> THEN <<>>
    ELSE LET k == Head(kinds)
         IN  <<[word |-> k.word, start |-> QInt(t + k.gap), end |-> QInt(t + k.gap + k.dur)]>>
             \o BuildTokens(Tail(kinds), t + k.gap + k.dur)

SeqsUpTo(S, lo, hi) == UNION {[1..m -> S] : m \in lo..hi}

\* An ASR result whose words all lie in one segment.
WordResult(tokens) ==
    [text |-> Concat([k \in 1..Len(tokens) |-> tokens[k].word]),
     segments |-> <<[start |-> IF tokens = <<>> THEN QInt(0) ELSE tokens[1].start,
                     end |-> IF tokens = <<>> THEN QInt(0) ELSE tokens[Len(tokens)].end,
                     has_words |-> TRUE,
                     words |-> tokens]>>]

\* An ASR result of m segments without word-level timestamps.
SegmentResult(m) ==
    [text |-> Concat([k \in 1..m |-> <<" ", "a", "b">>]),
     segments |-> [k \in 1..m |->
                     [start |-> QInt(k - 1), end |-> QInt(k), has_words |-> FALSE,
                      words |-> <<>>]]]

\* n tokens " ab", one second each.
UniformResult(n) ==
    WordResult(BuildTokens([k \in 1..n |-> [word |-> <<" ", "a", "b">>, gap |-> 0, dur |-> 1]], 0))

ShortResults ==
    {WordResult(BuildTokens(ks, 0)) : ks \in SeqsUpTo(TokenKinds, 0, MaxTokens)}
    \cup {SegmentResult(m) : m \in 0..MaxSegments}

\* Scripts of up to MaxWords words, the empty script and a blank one.
ShortScripts ==
    {Join(ws) : ws \in SeqsUpTo(CanonVocab, 0, MaxWords)} \cup {<<" ">>}

\* Scripts of more than MaxWords words: "x" everywhere but at the positions P,
\* which hold the sentence-ending "Ab.".
LongScript(n, P) ==
    Join([k \in 1..n |-> IF k \in P THEN <<"A", "b", ".">> ELSE <<"x">>])

LongScripts ==
    {LongScript(n, P) : n \in (MaxWords + 1)..MaxLong,
                        P \in {P \in SUBSET (1..MaxLong) : Cardinality(P) <= MaxPunct}}

Scripts == ShortScripts \cup LongScripts

\* The ASR results tried with a script: a long script comes with as many uniform
\* tokens as it has words, with a single token, or with word-less segments, one
\* or MaxSegments of them.
ResultsFor(script) ==
    IF script.kind = "str" /\ Len(Split(script.text)) > MaxWords
    THEN {UniformResult(Len(Split(script.text))), UniformResult(1), SegmentResult(1),
          SegmentResult(MaxSegments)}
    ELSE ShortResults

\* Audio durations in seconds, as read by the fallback.
Durations == {QInt(1), QInt(10)}

NoScript == [kind |-> "none", text |-> <<>>]

\* ------------------------------------------------------------ segmentation adapter
\* str.find and str.rfind of one character: the 0-based index, or -1.
RECURSIVE Find(_, _, _)
Find(s, c, i) ==
    IF i >= Len(s) THEN -1 ELSE IF s[i + 1] = c THEN i ELSE Find(s, c, i + 1)

RECURSIVE RFind(_, _, _)
RFind(s, c, i) ==
    IF i < 0 THEN -1 ELSE IF s[i + 1] = c THEN i ELSE RFind(s, c, i - 1)

\* s[lo:hi] of Python for lo, hi >= 0: the bounds are clamped to the length.
Slice(s, lo, hi) ==
    LET l == Min(lo, Len(s))
        h == Min(hi, Len(s))
    IN  IF l >= h THEN <<>> ELSE SubSeq(s, l + 1, h)

JsonWhitespace == {" ", "\n"}
JsonDigits == {"1", "2"}

\* json.loads of a text, for the texts of arrays of strings and integers: the
\* parsed array, or ok = FALSE where JSONDecodeError is raised. st is the place
\* in the grammar, cur the element being read, acc the elements read.
RECURSIVE JsonLoadsRec(_, _, _, _, _)
JsonLoadsRec(s, i, st, cur, acc) ==
    LET fail == [ok |-> FALSE, value |-> <<>>]
    IN  IF i > Len(s) THEN (IF st = "end" THEN [ok |-> TRUE, value |-> acc] ELSE fail)
        ELSE LET c == s[i]
             IN  CASE st = "start" ->
                        IF c \in JsonWhitespace THEN JsonLoadsRec(s, i + 1, st, cur, acc)
                        ELSE IF c = "[" THEN JsonLoadsRec(s, i + 1, "first", cur, acc)
                        ELSE fail
                   [] st \in {"first", "element"} ->
                        IF c \in JsonWhitespace THEN JsonLoadsRec(s, i + 1, st, cur, acc)
                        ELSE IF c = "\"" THEN JsonLoadsRec(s, i + 1, "string", <<>>, acc)
                        ELSE IF c \in JsonDigits THEN JsonLoadsRec(s, i + 1, "number", <<c>>, acc)
                        ELSE IF c = "]" /\ st = "first" THEN JsonLoadsRec(s, i + 1, "end", cur, acc)
                        ELSE fail
                   [] st = "string" ->
                        IF c = "\""
                        THEN JsonLoadsRec(s, i + 1, "after", <<>>,
                                          Append(acc, [type |-> "str", val |-> cur]))
                        ELSE IF c = "\n" THEN fail
                        ELSE JsonLoadsRec(s, i + 1, st, Append(cur, c), acc)
                   [] st = "number" ->
                        IF c \in JsonDigits THEN JsonLoadsRec(s, i + 1, st, Append(cur, c), acc)
                        ELSE JsonLoadsRec(s, i, "after", <<>>,
                                          Append(acc, [type |-> "int", val |-> cur]))
                   [] st = "after" ->
                        IF c \in JsonWhitespace THEN JsonLoadsRec(s, i + 1, st, cur, acc)
                        ELSE IF c = "," THEN JsonLoadsRec(s, i + 1, "element", cur, acc)
                        ELSE IF c = "]" THEN JsonLoadsRec(s, i + 1, "end", cur, acc)
                        ELSE fail
                   [] OTHER ->
                        IF c \in JsonWhitespace THEN JsonLoadsRec(s, i + 1, st, cur, acc)
                        ELSE fail

JsonLoads(s) == JsonLoadsRec(s, 1, "start", <<>>, <<>>)

\* '\n'.join(json_str.split('\n')[:i]): the text before its i-th line break, the
\* whole text when it has fewer.
RECURSIVE JoinLines(_, _)
JoinLines(s, i) ==
    IF s = <<>> THEN <<>>
    ELSE IF Head(s) = "\n"
         THEN (IF i = 1 THEN <<>> ELSE <<"\n">> \o JoinLines(Tail(s), i - 1))
         ELSE <<Head(s)>> \o JoinLines(Tail(s), i)

\* len(json_str.split('\n'))
LineCount(s) == 1 + Cardinality({k \in 1..Len(s) : s[k] = "\n"})

\* The clean-up loop after a parse error: the longest run of leading lines that
\* ends with ']' and parses to num_segments elements.
RECURSIVE CleanUp(_, _, _)
CleanUp(json_str, i, num_segments) ==
    IF i <= 0 THEN [ok |-> FALSE, value |-> <<>>]
    ELSE LET test_json == JoinLines(json_str, i)
             parsed == JsonLoads(test_json)
         IN  IF EndsWithAny(test_json, {"]"}) /\ parsed.ok
                /\ Len(parsed.value) = num_segments
             THEN parsed
             ELSE CleanUp(json_str, i - 1, num_segments)

\* The segment i (0-based) of _simple_split.
SimpleSplitSegment(words, num_segments, words_per_segment, i) ==
    LET start_idx == i * words_per_segment
    IN  IF i = num_segments - 1
        THEN Slice(words, start_idx, Len(words))
        ELSE Slice(words, start_idx, start_idx + words_per_segment)

\* A variant of _simple_split that shares the remainder out one word at a time
\* instead of leaving it to the last segment.
SimpleSplitSpreading(text, num_segments) ==
    LET words == Split(text)
        base == Len(words) \div num_segments
        extra == Len(words) % num_segments
        StartOf(i) == i * base + Min(i, extra)
    IN  [k \in 1..num_segments |->
            [type |-> "str",
             val |-> Join(Slice(words, StartOf(k - 1), StartOf(k)))]]

\* _simple_split, for num_segments > 0: the segments as JSON-like values.
SimpleSplit(text, num_segments) ==
    LET words == Split(text)
        quotient == Len(words) \div num_segments
        words_per_segment == IF quotient > 1 THEN quotient ELSE 1
    IN  [k \in 1..num_segments |->
            [type |-> "str",
             val |-> Join(SimpleSplitSegment(words, num_segments, words_per_segment, k - 1))]]

\* Whether _simple_split raises: the division by num_segments = 0.
SimpleSplitRaises(num_segments) == num_segments = 0

\* The text of a JSON array: the elements between brackets, separated by sep.
ElementText(e) == IF e.type = "str" THEN <<"\"">> \o e.val \o <<"\"">> ELSE e.val

RECURSIVE JoinElements(_, _)
JoinElements(elems, sep) ==
    IF elems = <<>> THEN <<>>
    ELSE IF Len(elems) = 1 THEN ElementText(elems[1])
    ELSE ElementText(elems[1]) \o sep \o JoinElements(Tail(elems), sep)

ArrayText(elems, sep) == <<"[">> \o JoinElements(elems, sep) \o <<"]">>

\* The content of the message of an answer with status 200, by its form.
ReplyText(response) ==
    LET elems == response.elems
    IN  CASE response.form = "plain" -> ArrayText(elems, <<",", " ">>)
          [] response.form = "prose" ->
                <<"o", "k", " ">> \o ArrayText(elems, <<",", " ">>) \o <<" ", "o", "k", "\n">>
          [] response.form = "trailing_note" ->
                ArrayText(elems, <<",", "\n">>) \o <<"\n", "s", "e", "e", " ", "[", "1", "]">>
          [] response.form = "leading_note" ->
                <<"s", "e", "e", " ", "[", "1", "]", " ">> \o ArrayText(elems, <<",", " ">>)
          [] response.form = "trailing_comma" ->
                <<"[">> \o JoinElements(elems, <<",", " ">>) \o <<",", "]">>
          [] response.form = "reversed" -> <<"]", " ", "[">>
          [] response.form = "text" -> <<"o", "k">>
          [] OTHER -> <<>>

ArrayForms == {"plain", "prose", "trailing_note", "leading_note", "trailing_comma"}
OtherForms == {"reversed", "text", "empty"}

\* The arrays the service answers with: strings, or integers.
ReplyArrays ==
    {[i \in 1..k |-> [type |-> "str", val |-> <<"a", " ", "b">>]] : k \in 0..MaxReply}
    \cup {[i \in 1..k |-> [type |-> "int", val |-> <<"1", "2">>]] : k \in 1..MaxReply}

\* What requests.post comes back with: an exception, a status other than 200,
\* a body that is not JSON, or a message with some content.
Responses ==
    {[kind |-> k, form |-> "empty", elems |-> <<>>] :
        k \in {"connection_error", "timeout", "status", "not_json"}}
    \cup {[kind |-> "ok", form |-> f, elems |-> e] : f \in ArrayForms, e \in ReplyArrays}
    \cup {[kind |-> "ok", form |-> f, elems |-> <<>>] : f \in OtherForms}

NoResponse == [kind |-> "none", form |-> "empty", elems |-> <<>>]

\* The array _align_with_qwen takes from the response, ok = FALSE where it
\* falls back to _simple_split.
QwenAnswer(response, num_segments) ==
    LET none == [ok |-> FALSE, value |-> <<>>]
    IN  IF response.kind # "ok" THEN none
        ELSE LET response_text == Strip(ReplyText(response), JsonWhitespace)
                 start_idx == Find(response_text, "[", 0)
                 end_idx == RFind(response_text, "]", Len(response_text) - 1) + 1
             IN  IF start_idx # -1 /\ end_idx > start_idx
                 THEN LET json_str == Slice(response_text, start_idx, end_idx)
                          parsed == JsonLoads(json_str)
                      IN  IF parsed.ok
                          THEN (IF Len(parsed.value) = num_segments THEN parsed ELSE none)
                          ELSE CleanUp(json_str, LineCount(json_str), num_segments)
                 ELSE none

\* The subtitle file align_subtitles opens: n cues of one second each, numbered
\* from 1, as generate_from_audio saves them.
SubtitleFile(n) ==
    [k \in 1..n |-> [index |-> k, start |-> SubRipTime(0, 0, k - 1, 0),
                     end |-> SubRipTime(0, 0, k, 0),
                     text |-> [type |-> "str", val |-> <<"a", "b">>]]]

\* A variant of the replacement that leaves out the cues whose segment is empty.
ReplaceTextsDroppingEmpty(file_subs, aligned_segments) ==
    LET replaced == [i \in 1..Len(file_subs) |->
                        IF i - 1 < Len(aligned_segments)
                        THEN [file_subs[i] EXCEPT !.text = aligned_segments[i]]
                        ELSE file_subs[i]]
    IN  SelectSeq(replaced, LAMBDA sub : sub.text.val # <<>>)

\* `for i, sub in enumerate(subs): if i < len(aligned_segments): sub.text =
\* aligned_segments[i]`, and the list that is saved.
ReplaceTexts(file_subs, aligned_segments) ==
    [i \in 1..Len(file_subs) |->
        IF i - 1 < Len(aligned_segments)
        THEN [file_subs[i] EXCEPT !.text = aligned_segments[i]]
        ELSE file_subs[i]]

\* The scripts handed to the adapter: up to MaxWords words, and blank ones.
AdapterScripts ==
    {Join(ws) : ws \in SeqsUpTo({<<"c">>, <<"x">>}, 0, MaxWords)} \cup {<<" ">>}

\* The inputs of the direct calls of the aligner and of its scoring step.
\* No token or one, and MaxDirectTokens tokens of one second each, more than
\* the look-ahead spans; the sequences in between reach the aligner through
\* generate_from_audio.
DirectTokens ==
    {CollectWords(WordResult(BuildTokens(ks, 0)).segments) : ks \in SeqsUpTo(TokenKinds, 0, 1)}
    \cup {CollectWords(WordResult(BuildTokens(ks, 0)).segments) :
            ks \in [1..MaxDirectTokens -> [word : TokenWords, gap : {0}, dur : {1}]]}
DirectWords == {Split(script) : script \in ShortScripts}
ScoreTokens ==
    {Strip(w, Whitespace) : w \in TokenWords}
    \cup {<<>>, <<"a", "b", "c", "d">>, <<"A", "b", "x">>}
ScoreWords ==
    CanonVocab \cup {<<"a", "b", "c", "e">>, <<"a", "b">>, <<"A", "B", "C", "D", "!">>,
                     <<"a", "b", "y", "z">>}

\* ------------------------------------------------------------ script aligner
\* The characters re.sub(r'[^\w\s]', '', text) removes, of those used here.
NonWordChars == {".", ",", "!", "?", ":", ";"}

\* _clean_text: lower case, no punctuation, single spaces, stripped.
CleanText(text) == Join(Split(SelectSeq(Lower(text), LAMBDA c : c \notin NonWordChars)))

\* The length of the common run of a from i and b from j (0-based), within
\* a[:ahi] and b[:bhi].
RECURSIVE CommonRun(_, _, _, _, _, _)
CommonRun(a, b, i, j, ahi, bhi) ==
    IF i < ahi /\ j < bhi /\ a[i + 1] = b[j + 1]
    THEN 1 + CommonRun(a, b, i + 1, j + 1, ahi, bhi)
    ELSE 0

\* SequenceMatcher.find_longest_match without junk: the longest common block
\* of a[alo:ahi] and b[blo:bhi], the one that starts earliest in a and, of
\* those, earliest in b.
FindLongestMatch(a, b, alo, ahi, blo, bhi) ==
    LET cands == (alo..(ahi - 1)) \X (blo..(bhi - 1))
        size(c) == CommonRun(a, b, c[1], c[2], ahi, bhi)
        best == CHOOSE c \in cands :
                    \A d \in cands :
                        \/ size(c) > size(d)
                        \/ /\ size(c) = size(d)
                           /\ (c[1] < d[1] \/ (c[1] = d[1] /\ c[2] <= d[2]))
    IN  [i |-> best[1], j |-> best[2], size |-> size(best)]

\* The characters in the matching blocks of SequenceMatcher.get_matching_blocks:
\* the longest block, then the same to its left and to its right.
RECURSIVE MatchingCharacters(_, _, _, _, _, _)
MatchingCharacters(a, b, alo, ahi, blo, bhi) ==
    IF alo >= ahi \/ blo >= bhi THEN 0
    ELSE LET m == FindLongestMatch(a, b, alo, ahi, blo, bhi)
         IN  IF m.size = 0 THEN 0
             ELSE m.size + MatchingCharacters(a, b, alo, m.i, blo, m.j)
                         + MatchingCharacters(a, b, m.i + m.size, ahi, m.j + m.size, bhi)

\* SequenceMatcher(None, a, b).ratio(): 2 * matches / (len(a) + len(b)), and 1
\* for two empty strings.
Ratio(a, b) ==
    IF Len(a) + Len(b) = 0 THEN QInt(1)
    ELSE Q(2 * MatchingCharacters(a, b, 0, Len(a), 0, Len(b)), Len(a) + Len(b))

\* _similarity
Similarity(text1, text2) == Ratio(CleanText(text1), CleanText(text2))

\* self.similarity_threshold = 0.6
SimilarityThreshold == Q(6, 10)

\* None, and a string, as _find_best_word_sequence returns them.
None == [some |-> FALSE, text |-> <<>>]
Some(text) == [some |-> TRUE, text |-> text]

\* A variant of the window loop in which an equal ratio replaces the best one.
RECURSIVE WindowLoopLatest(_, _, _, _)
WindowLoopLatest(chunk_words, original_words, i, best) ==
    IF i >= Len(original_words) - Len(chunk_words) + 1 THEN best
    ELSE LET window == Slice(original_words, i, i + Len(chunk_words))
             window_text == Join(window)
             chunk_text == Join(chunk_words)
             ratio == Similarity(chunk_text, window_text)
         IN  WindowLoopLatest(chunk_words, original_words, i + 1,
                              IF QLe(best.ratio, ratio)
                              THEN [ratio |-> ratio, match |-> Some(window_text)]
                              ELSE best)

\* The loop of _find_best_word_sequence over the windows of chunk_len words.
RECURSIVE WindowLoop(_, _, _, _)
WindowLoop(chunk_words, original_words, i, best) ==
    IF i >= Len(original_words) - Len(chunk_words) + 1 THEN best
    ELSE LET window == Slice(original_words, i, i + Len(chunk_words))
             window_text == Join(window)
             chunk_text == Join(chunk_words)
             ratio == Similarity(chunk_text, window_text)
         IN  WindowLoop(chunk_words, original_words, i + 1,
                        IF QLt(best.ratio, ratio)
                        THEN [ratio |-> ratio, match |-> Some(window_text)]
                        ELSE best)

\* _find_best_word_sequence
FindBestWordSequence(chunk_words, original_words) ==
    LET best == WindowLoop(chunk_words, original_words, 0,
                           [ratio |-> QInt(0), match |-> None])
    IN  IF QLe(SimilarityThreshold, best.ratio) THEN best.match ELSE None

\* One chunk of the loop of align_subtitle_chunks.
CorrectedChunk(chunk, original_words) ==
    LET best_match == FindBestWordSequence(Split(chunk.text), original_words)
    IN  IF best_match.some /\ best_match.text # <<>>
        THEN [text |-> best_match.text, start |-> chunk.start, end |-> chunk.end]
        ELSE chunk

\* align_subtitle_chunks: the script is None or an empty dict (kind "none"), or
\* a dict whose 'script' is the text.
AlignSubtitleChunks(subtitle_chunks, script) ==
    IF script.kind = "none" THEN subtitle_chunks
    ELSE LET original_words == Split(script.text)
         IN  [k \in 1..Len(subtitle_chunks) |->
                 CorrectedChunk(subtitle_chunks[k], original_words)]

\* `needle in haystack` of two strings.
In(needle, haystack) ==
    \E k \in 0..(Len(haystack) - Len(needle)) :
        SubSeq(haystack, k + 1, k + Len(needle)) = needle

\* A variant of _ensure_intro_outro that looks for the phrases as they are
\* written.
EnsureIntroOutroCaseSensitive(text, intro, outro) ==
    LET with_intro == IF intro # <<>> /\ ~In(intro, text)
                      THEN intro \o <<" ">> \o text ELSE text
    IN  IF outro # <<>> /\ ~In(outro, text)
        THEN with_intro \o <<" ">> \o outro ELSE with_intro

\* _ensure_intro_outro: text_lower is taken once, before the intro is added.
EnsureIntroOutro(text, intro, outro) ==
    LET text_lower == Lower(text)
        with_intro == IF intro # <<>> /\ ~In(Lower(intro), text_lower)
                      THEN intro \o <<" ">> \o text ELSE text
    IN  IF outro # <<>> /\ ~In(Lower(outro), text_lower)
        THEN with_intro \o <<" ">> \o outro ELSE with_intro

\* The chunk texts, the scripts and the fixed phrases the script aligner is
\* called with.
ChunkTexts ==
    {<<"a", "b", " ", "c", "x">>, <<"a", "b">>, <<>>, <<" ">>,
     <<" ", "A", "b", " ", " ", "c", "x", " ">>, <<"b", "x", " ", "x", "a">>,
     <<"c", "x", " ", "a", "b", " ", "a", "b">>}

ChunkLists ==
    {[k \in 1..n |-> [text |-> texts[k], start |-> QInt(k - 1), end |-> QInt(k)]] :
        n \in {1, 2}, texts \in [1..2 -> ChunkTexts]} \cup {<<>>}

ChunkScripts ==
    {[kind |-> "none", text |-> <<>>]}
    \cup {[kind |-> "dict", text |-> t] :
            t \in {<<"A", "b", ".", " ", "c", " ", "a", "b", " ", "c", "x">>,
                   <<"x", "b", " ", "a", "x">>, <<"c">>,
                   <<"A", "b", ".", " ", "A", "b", "!">>, <<>>}}

ReconstructedTexts ==
    {<<>>, <<"x">>, <<"a", "b", " ", "x">>, <<"x", " ", "A", "B", " ", "c">>,
     <<"x", " ", "C">>, <<"c", "A", "b">>}
Intros == {<<>>, <<"A", "b">>}
Outros == {<<>>, <<"c">>, <<"b">>}

\* ------------------------------------------------------------ state
VARIABLES
    karaoke_mode,     \* self.karaoke_mode
    original_script,  \* self.original_script
    subs,             \* self.subs, the SubRipFile
    cues,             \* the cues handed to _create_subtitle_item, in order
    file,             \* the saved subtitle file
    pc,               \* where generate_from_audio stands
    whisper_result,   \* the ASR result of the running call
    whisper_words,    \* locals of the running call
    corrected_words,
    aligned_pairs,
    idx,
    phrase_idx,
    strategy,         \* which code path filled self.subs last
    qwen,             \* the running call of SubtitleAligner._align_with_qwen
    scored,           \* the last token and canonical word scored, and the score
    align_call,       \* the last direct call of _align_words_with_timing
    script_aligner,   \* the last call on the script aligner
    earlier_call      \* generate_from_audio has run before on this generator

vars == <<karaoke_mode, original_script, subs, cues, file, pc, whisper_result,
          whisper_words, corrected_words, aligned_pairs, idx, phrase_idx, strategy,
          qwen, scored, align_call, script_aligner, earlier_call>>

\* The state of the generator, of which the adapter reads nothing.
generator == <<karaoke_mode, original_script, subs, cues, file, pc, whisper_result,
               whisper_words, corrected_words, aligned_pairs, idx, phrase_idx, strategy,
               earlier_call>>

NoQwen ==
    [pc |-> "idle", original_script |-> <<>>, num_segments |-> 0, requests |-> 0,
     response |-> NoResponse, segments |-> <<>>, loaded |-> <<>>, saved |-> <<>>]

NoScore == [whisper_word |-> <<>>, corrected_word |-> <<>>, similarity |-> -1]

NoAlignCall ==
    [pc |-> "idle", whisper_words |-> <<>>, corrected_words |-> <<>>, aligned |-> <<>>,
     trace |-> <<>>]

NoAlignerCall ==
    [op |-> "none", text |-> <<>>, intro |-> <<>>, outro |-> <<>>, ensured |-> <<>>,
     again |-> <<>>, subtitle_chunks |-> <<>>, original_script |-> NoScript,
     corrected_chunks |-> <<>>]

NoFile == [saved |-> FALSE, items |-> <<>>]

NoResult == [text |-> <<>>, segments |-> <<>>]

Init ==
    /\ karaoke_mode \in BOOLEAN
    /\ original_script = NoScript
    /\ subs = <<>>
    /\ cues = <<>>
    /\ file = NoFile
    /\ pc = "idle"
    /\ whisper_result = NoResult
    /\ whisper_words = <<>>
    /\ corrected_words = <<>>
    /\ aligned_pairs = <<>>
    /\ idx = 0
    /\ phrase_idx = 1
    /\ strategy = "none"
    /\ qwen = NoQwen
    /\ scored = NoScore
    /\ align_call = NoAlignCall
    /\ script_aligner = NoAlignerCall
    /\ earlier_call = FALSE

\* The program is single-threaded and the objects share no state: one call is
\* followed at a time, on objects nothing else has been called on.
Untouched ==
    /\ qwen = NoQwen
    /\ scored = NoScore
    /\ align_call = NoAlignCall
    /\ script_aligner = NoAlignerCall
Fresh == Untouched /\ pc = "idle" /\ original_script = NoScript /\ ~earlier_call

\* The scripts set as a dict: with an empty 'script', with a one-word 'script',
\* and with other keys only.
DictScripts ==
    {[kind |-> "dict", text |-> <<>>], [kind |-> "dict", text |-> <<"c">>],
     [kind |-> "dict_nokey", text |-> <<>>]}

\* `if self.original_script:` of a string or of a dict that has keys.
Truthy(script) ==
    \/ script.kind = "str" /\ script.text # <<>>
    \/ script.kind \in {"dict", "dict_nokey"}

\* The text the primary path displays: the script, the 'script' of a dict, or
\* the transcription.
CorrectedText(script, whisper_transcription) ==
    IF Truthy(script) /\ script.kind # "dict_nokey" THEN script.text
    ELSE whisper_transcription

\* The text the fallback displays.
FallbackText(script) ==
    IF Truthy(script) /\ script.kind # "dict_nokey" THEN script.text ELSE FailedText

\* A variant of the last resort that puts the placeholder cue behind the cues
\* self.subs holds.
PlaceholderBehindSubs ==
    Append(subs, [index |-> Len(subs) + 1, start |-> SubRipTime(0, 0, 0, 0),
                  end |-> SubRipTime(0, 1, 0, 0), text |-> PlaceholderText])

\* The subtitle file of the last resort: one cue of a minute.
PlaceholderSubs ==
    <<[index |-> 1, start |-> SubRipTime(0, 0, 0, 0),
       end |-> SubRipTime(0, 1, 0, 0), text |-> PlaceholderText]>>

\* set_original_script. It is taken once per generator: a second call only
\* overwrites the field, which reaches no state the first call does not reach.
\* With a dict the field is assigned before the word count of the message
\* raises AttributeError to the caller.
SetOriginalScript ==
    /\ pc = "idle"
    /\ Untouched
    /\ original_script = NoScript
    /\ ~earlier_call
    /\ \/ \E script \in Scripts : original_script' = [kind |-> "str", text |-> script]
       \/ \E script \in DictScripts : original_script' = script
    /\ UNCHANGED <<karaoke_mode, subs, cues, file, pc, whisper_result,
                   whisper_words, corrected_words,
                   aligned_pairs, idx, phrase_idx, strategy>>
    /\ UNCHANGED <<qwen, scored, align_call, script_aligner, earlier_call>>

\* A variant of the new subtitle list that keeps the cues self.subs holds.
SubRipFileKept == subs

\* `self.subs = pysrt.SubRipFile()`: the new, empty list every strategy starts
\* from.
SubRipFile == <<>>

\* generate_from_audio up to the transcription, when one of its stages raises
\* (audio file missing, model load, transcribe): the except clause takes over.
PrimaryRaises ==
    /\ pc = "idle"
    /\ Untouched
    /\ pc' = "fallback"
    /\ UNCHANGED <<karaoke_mode, original_script, subs, cues, file, whisper_result,
                   whisper_words,
                   corrected_words, aligned_pairs, idx, phrase_idx, strategy>>
    /\ UNCHANGED <<qwen, scored, align_call, script_aligner, earlier_call>>

\* generate_from_audio from the transcription to the head of the segmenter loop:
\* the choice of the text, the collection of the timed words, the segment-timing
\* path when there are none, and the alignment.
BeginGenerate ==
    /\ pc = "idle"
    /\ Untouched
    /\ \E result \in ResultsFor(original_script) :
        LET corrected_text == CorrectedText(original_script, result.text)
            ww == CollectWords(result.segments)
            cw == Split(corrected_text)
        IN  /\ whisper_result' = result
            /\ whisper_words' = ww
            /\ corrected_words' = cw
            /\ idx' = 0
            /\ phrase_idx' = 1
            /\ IF ww = <<>>
               THEN /\ cues' = SegmentCues(result.segments, cw, 0, 1, <<>>)
                    /\ subs' = SubRipFile \o ItemsOf(cues')
                    /\ aligned_pairs' = <<>>
                    /\ strategy' = "segments"
                    /\ pc' = "save"
               ELSE /\ cues' = <<>>
                    /\ subs' = SubRipFile
                    /\ strategy' = "words"
                    /\ IF AlignRaises(ww, cw)
                       THEN /\ aligned_pairs' = <<>>
                            /\ pc' = "fallback"
                       ELSE /\ aligned_pairs' = AlignWordsWithTiming(ww, cw)
                            /\ pc' = IF karaoke_mode THEN "karaoke_loop" ELSE "chunk_loop"
    /\ UNCHANGED <<karaoke_mode, original_script, file>>
    /\ UNCHANGED <<qwen, scored, align_call, script_aligner, earlier_call>>

\* A variant that ends the cue with its first word: phrase_end is never updated.
PhraseCueFirstEnd(aligned, i, index, phrase_words) ==
    Cue(index, aligned[i + 1].start, aligned[i + 1].end, Join(phrase_words))

\* A variant that numbers the cue by the word cursor instead of the phrase counter.
PhraseCueWordIndex(aligned, i, index, phrase_words) ==
    Cue(i + 1, aligned[i + 1].start, aligned[i + Len(phrase_words)].end, Join(phrase_words))

\* The cue of the phrase that starts at idx: it starts with its first word and
\* ends with the last word taken.
PhraseCue(aligned, i, index, phrase_words) ==
    Cue(index, aligned[i + 1].start, aligned[i + Len(phrase_words)].end, Join(phrase_words))

\* A variant that steps by the phrase size whatever the phrase took.
AdvanceIdxByStep(i, phrase_words, words_per_phrase) == i + words_per_phrase

\* A variant that leaves the cursor on the last word of the phrase.
AdvanceIdxOntoLastWord(i, phrase_words, words_per_phrase) == i + Len(phrase_words) - 1

\* idx += len(phrase_words)
AdvanceIdx(i, phrase_words, words_per_phrase) == i + Len(phrase_words)

\* One iteration of a segmenter loop that groups at most words_per_phrase words.
LoopIteration(words_per_phrase) ==
    /\ idx < Len(aligned_pairs)
    /\ LET phrase_words == PhraseWords(aligned_pairs, idx, 0, words_per_phrase, <<>>)
       IN  /\ IF phrase_words # <<>>
              THEN LET cue == PhraseCue(aligned_pairs, idx, phrase_idx, phrase_words)
                   IN  /\ cues' = Append(cues, cue)
                       /\ subs' = Append(subs, CreateSubtitleItem(cue.index, cue.start,
                                                                  cue.end, cue.text))
                       /\ phrase_idx' = phrase_idx + 1
              ELSE UNCHANGED <<cues, subs, phrase_idx>>
           /\ idx' = AdvanceIdx(idx, phrase_words, words_per_phrase)
    /\ UNCHANGED <<karaoke_mode, original_script, file, pc, whisper_result,
                   whisper_words, corrected_words,
                   aligned_pairs, strategy>>
    /\ UNCHANGED <<qwen, scored, align_call, script_aligner, earlier_call>>

\* The while loop of _generate_karaoke_subtitles.
KaraokeLoopIteration ==
    /\ pc = "karaoke_loop"
    /\ LoopIteration(KaraokeWordsPerPhrase)

\* The while loop of _generate_chunk_subtitles.
ChunkLoopIteration ==
    /\ pc = "chunk_loop"
    /\ LoopIteration(ChunkWordsPerChunk)

\* The loop condition fails: back in generate_from_audio.
LoopExit ==
    /\ pc \in {"karaoke_loop", "chunk_loop"}
    /\ idx >= Len(aligned_pairs)
    /\ pc' = "save"
    /\ UNCHANGED <<karaoke_mode, original_script, subs, cues, file, whisper_result,
                   whisper_words,
                   corrected_words, aligned_pairs, idx, phrase_idx, strategy>>
    /\ UNCHANGED <<qwen, scored, align_call, script_aligner, earlier_call>>

\* Making the directory, saving the file or finding it afterwards raises: the
\* except clause takes over. The locals of the call are gone, self.subs stays.
SaveRaises ==
    /\ pc = "save"
    /\ pc' = "fallback"
    /\ whisper_result' = NoResult
    /\ whisper_words' = <<>>
    /\ corrected_words' = <<>>
    /\ aligned_pairs' = <<>>
    /\ idx' = 0
    /\ phrase_idx' = 1
    /\ UNCHANGED <<karaoke_mode, original_script, subs, cues, file, strategy>>
    /\ UNCHANGED <<qwen, scored, align_call, script_aligner, earlier_call>>

\* The directory is made, the file saved and the path returned.
Save ==
    /\ pc = "save"
    /\ file' = [saved |-> TRUE, items |-> subs]
    /\ pc' = "returned"
    /\ UNCHANGED <<karaoke_mode, original_script, subs, cues, whisper_result,
                   whisper_words,
                   corrected_words, aligned_pairs, idx, phrase_idx, strategy>>
    /\ UNCHANGED <<qwen, scored, align_call, script_aligner, earlier_call>>

\* _fallback_generation when the audio can be read: uniform cues over its duration.
FallbackGeneration ==
    /\ pc = "fallback"
    /\ \E duration \in Durations :
        LET text == FallbackText(original_script)
        IN  /\ cues' = FallbackCues(text, duration)
            /\ subs' = SubRipFile \o ItemsOf(cues')
    /\ file' = [saved |-> TRUE, items |-> subs']
    /\ strategy' = "fallback"
    /\ pc' = "returned"
    /\ UNCHANGED <<karaoke_mode, original_script, whisper_result,
                   whisper_words, corrected_words,
                   aligned_pairs, idx, phrase_idx>>
    /\ UNCHANGED <<qwen, scored, align_call, script_aligner, earlier_call>>

\* The try block of _fallback_generation raises: reading the audio does, with
\* self.subs as it was, or making the directory or saving does, with the
\* uniform cues in self.subs. Its except clause takes over.
FallbackRaises ==
    /\ pc = "fallback"
    /\ \/ UNCHANGED <<cues, subs, strategy>>
       \/ \E duration \in Durations :
            /\ cues' = FallbackCues(FallbackText(original_script), duration)
            /\ subs' = SubRipFile \o ItemsOf(cues')
            /\ strategy' = "fallback"
    /\ pc' = "last_resort"
    /\ UNCHANGED <<karaoke_mode, original_script, file, whisper_result,
                   whisper_words, corrected_words,
                   aligned_pairs, idx, phrase_idx>>
    /\ UNCHANGED <<qwen, scored, align_call, script_aligner, earlier_call>>

\* The except clause of _fallback_generation: the placeholder cue is written.
FallbackPlaceholder ==
    /\ pc = "last_resort"
    /\ cues' = <<Cue(1, QInt(0), QInt(60), PlaceholderText)>>
    /\ subs' = SubRipFile \o PlaceholderSubs
    /\ file' = [saved |-> TRUE, items |-> subs']
    /\ strategy' = "placeholder"
    /\ pc' = "returned"
    /\ UNCHANGED <<karaoke_mode, original_script, whisper_result,
                   whisper_words, corrected_words,
                   aligned_pairs, idx, phrase_idx>>
    /\ UNCHANGED <<qwen, scored, align_call, script_aligner, earlier_call>>

\* In the except clause of _fallback_generation making the directory or saving
\* the placeholder raises too: nothing catches it, the exception leaves
\* generate_from_audio.
PlaceholderRaises ==
    /\ pc = "last_resort"
    /\ cues' = <<Cue(1, QInt(0), QInt(60), PlaceholderText)>>
    /\ subs' = SubRipFile \o PlaceholderSubs
    /\ strategy' = "placeholder"
    /\ pc' = "raised"
    /\ UNCHANGED <<karaoke_mode, original_script, file, whisper_result,
                   whisper_words, corrected_words,
                   aligned_pairs, idx, phrase_idx>>
    /\ UNCHANGED <<qwen, scored, align_call, script_aligner, earlier_call>>

\* generate_from_audio is called again on the generator, as the pipeline uses
\* it (no script set), for another output path: self.subs holds the cues the
\* call before left, the locals and what is known of the new file start afresh.
CallAgain ==
    /\ pc \in {"returned", "raised"}
    /\ original_script = NoScript
    /\ pc' = "idle"
    /\ earlier_call' = TRUE
    /\ file' = NoFile
    /\ whisper_result' = NoResult
    /\ whisper_words' = <<>>
    /\ corrected_words' = <<>>
    /\ aligned_pairs' = <<>>
    /\ idx' = 0
    /\ phrase_idx' = 1
    /\ UNCHANGED <<karaoke_mode, original_script, subs, cues, strategy>>
    /\ UNCHANGED <<qwen, scored, align_call, script_aligner>>

\* A direct call of _align_words_with_timing.
AlignWordsCall ==
    /\ Fresh
    /\ \E ww \in DirectTokens, cw \in DirectWords :
        align_call' =
            IF AlignRaises(ww, cw)
            THEN [pc |-> "raised", whisper_words |-> ww, corrected_words |-> cw,
                  aligned |-> <<>>, trace |-> <<>>]
            ELSE [pc |-> "returned", whisper_words |-> ww, corrected_words |-> cw,
                  aligned |-> AlignWordsWithTiming(ww, cw),
                  trace |-> IF Len(ww) = Len(cw) THEN <<>>
                            ELSE AlignTrace(ww, cw, 0, 0, <<>>)]
    /\ UNCHANGED <<generator, qwen, scored, script_aligner>>

\* The scoring step of the look-ahead loop, on one token and one canonical word.
ScoreCall ==
    /\ Fresh
    /\ \E token \in ScoreTokens, word \in ScoreWords :
        scored' = [whisper_word |-> token, corrected_word |-> word,
                   similarity |-> Score(token, word)]
    /\ UNCHANGED <<generator, qwen, align_call, script_aligner>>

\* A call of _ensure_intro_outro on a reconstructed text, and a second one on
\* what the first returned.
EnsureIntroOutroCall ==
    /\ Fresh
    /\ \E text \in ReconstructedTexts, intro \in Intros, outro \in Outros :
        LET ensured == EnsureIntroOutro(text, intro, outro)
        IN  script_aligner' =
                [NoAlignerCall EXCEPT !.op = "ensure_intro_outro", !.text = text,
                                      !.intro = intro, !.outro = outro,
                                      !.ensured = ensured,
                                      !.again = EnsureIntroOutro(ensured, intro, outro)]
    /\ UNCHANGED <<generator, qwen, scored, align_call>>

\* A call of align_subtitle_chunks.
AlignSubtitleChunksCall ==
    /\ Fresh
    /\ \E subtitle_chunks \in ChunkLists, script \in ChunkScripts :
        script_aligner' =
            [NoAlignerCall EXCEPT !.op = "align_subtitle_chunks",
                                  !.subtitle_chunks = subtitle_chunks,
                                  !.original_script = script,
                                  !.corrected_chunks =
                                      AlignSubtitleChunks(subtitle_chunks, script)]
    /\ UNCHANGED <<generator, qwen, scored, align_call>>

\* align_subtitles up to the request of _align_with_qwen: the file is opened,
\* its cues are counted, the prompt is built and posted.
AlignWithQwenCall ==
    /\ Fresh
    /\ \E script \in AdapterScripts, n \in 0..MaxNumSegments :
        qwen' = [pc |-> "waiting", original_script |-> script, num_segments |-> n,
                 requests |-> 1, response |-> NoResponse, segments |-> <<>>,
                 loaded |-> SubtitleFile(n), saved |-> SubtitleFile(n)]
    /\ UNCHANGED <<generator, scored, align_call, script_aligner>>

\* A variant of the fallback that asks the service once more before it splits.
FallBackAfterRetry(q) ==
    IF q.requests < 2 THEN [q EXCEPT !.pc = "waiting", !.requests = @ + 1]
    ELSE IF SimpleSplitRaises(q.num_segments) THEN [q EXCEPT !.pc = "raised"]
    ELSE [q EXCEPT !.pc = "returned",
                   !.segments = SimpleSplit(q.original_script, q.num_segments)]

\* `return self._simple_split(original_script, num_segments)`, on every path
\* that does not take the answer: the split is returned, or its exception
\* leaves _align_with_qwen.
FallBack(q) ==
    IF SimpleSplitRaises(q.num_segments) THEN [q EXCEPT !.pc = "raised"]
    ELSE [q EXCEPT !.pc = "returned",
                   !.segments = SimpleSplit(q.original_script, q.num_segments)]

\* _align_with_qwen from the end of its request: the post returns or raises
\* (the timeout of 60 s included), and the answer is taken or the split made.
\* Back in align_subtitles the texts are replaced and the file is saved; an
\* exception of the adapter leaves align_subtitles with the file as it was.
QwenResponds ==
    /\ qwen.pc = "waiting"
    /\ \E response \in Responses :
        LET answer == QwenAnswer(response, qwen.num_segments)
            q == [qwen EXCEPT !.response = response]
            r == IF answer.ok
                 THEN [q EXCEPT !.pc = "returned", !.segments = answer.value]
                 ELSE FallBack(q)
        IN  qwen' = IF r.pc = "returned"
                    THEN [r EXCEPT !.saved = ReplaceTexts(r.loaded, r.segments)]
                    ELSE r
    /\ UNCHANGED <<generator, scored, align_call, script_aligner>>

Next ==
    \/ AlignWordsCall
    \/ ScoreCall
    \/ AlignWithQwenCall
    \/ QwenResponds
    \/ SetOriginalScript
    \/ PrimaryRaises
    \/ BeginGenerate
    \/ KaraokeLoopIteration
    \/ ChunkLoopIteration
    \/ LoopExit
    \/ SaveRaises
    \/ Save
    \/ FallbackGeneration
    \/ FallbackRaises
    \/ FallbackPlaceholder
    \/ PlaceholderRaises
    \/ CallAgain
    \/ EnsureIntroOutroCall
    \/ AlignSubtitleChunksCall

Spec == Init /\ [][Next]_vars

\* ------------------------------------------------------------ properties
\* The phrase segmenter is running or has run on aligned_pairs.
InSegmenter == strategy = "words" /\ pc \in {"karaoke_loop", "chunk_loop", "save", "returned"}

\* The phrase segmenter has consumed every aligned word.
SegmenterDone == strategy = "words" /\ pc \in {"save", "returned"}

AlignedTexts(aligned) == [k \in 1..Len(aligned) |-> aligned[k].corrected_word]

\* The words of the cue texts, the texts taken in cue order and separated by
\* whitespace.
CueWords(cs) == Split(Join([k \in 1..Len(cs) |-> cs[k].text]))

\* The number of words of cue k.
WordCount(cs, k) == Len(Split(cs[k].text))

\* The number of words of the cues before cue k.
RECURSIVE WordsBefore(_, _)
WordsBefore(cs, k) == IF k <= 1 THEN 0 ELSE WordsBefore(cs, k - 1) + WordCount(cs, k - 1)

MaxWordsPerCue == IF karaoke_mode THEN KaraokeWordsPerPhrase ELSE ChunkWordsPerChunk

\* C1: in both pacing modes the words of the cue texts, in cue order, are the
\* texts of the aligned words consumed so far - all of them once the segmenter has
\* finished: same words, same order, none dropped, none duplicated.
C1_CueTextsReproduceAlignedWords ==
    InSegmenter =>
        /\ idx <= Len(aligned_pairs)
        /\ CueWords(cues) = AlignedTexts(SubSeq(aligned_pairs, 1, idx))
        /\ (SegmenterDone => idx = Len(aligned_pairs))

\* C1 witness: chunk mode has finished a script of more than 9 words with a cue
\* closed early by punctuation, and the cues hold all of its words.
C1_Witness ==
    /\ SegmenterDone
    /\ ~karaoke_mode
    /\ Len(aligned_pairs) > ChunkWordsPerChunk
    /\ Len(cues) >= 3
    /\ CueWords(cues) = AlignedTexts(aligned_pairs)

\* C2: for non-empty tokens and a non-empty canonical sequence the aligner returns
\* (the call is not handed to the fallback) one aligned word per canonical word, in
\* canonical order, whose text is the canonical word verbatim.
C2_OneAlignedWordPerCanonicalWord ==
    (whisper_words # <<>> /\ corrected_words # <<>>) =>
        /\ InSegmenter
        /\ Len(aligned_pairs) = Len(corrected_words)
        /\ \A i \in 1..Len(corrected_words) :
              aligned_pairs[i].corrected_word = corrected_words[i]

\* C2 witness: more canonical words than tokens, one of them spelled with a
\* capital and punctuation, all aligned.
C2_Witness ==
    /\ InSegmenter
    /\ whisper_words # <<>>
    /\ Len(corrected_words) > Len(whisper_words)
    /\ Len(aligned_pairs) = Len(corrected_words)
    /\ \E i \in 1..Len(aligned_pairs) : aligned_pairs[i].corrected_word = <<"A", "b", ".">>

\* C3: with as many tokens as canonical words the aligner zips by index: aligned
\* word i has canonical word i as its text and the start and end of token i.
C3_EqualLengthZipsByIndex ==
    (InSegmenter /\ Len(whisper_words) = Len(corrected_words)) =>
        /\ Len(aligned_pairs) = Len(corrected_words)
        /\ \A i \in 1..Len(corrected_words) :
              /\ aligned_pairs[i].corrected_word = corrected_words[i]
              /\ aligned_pairs[i].start = whisper_words[i].start
              /\ aligned_pairs[i].end = whisper_words[i].end

\* C3 witness: two or more tokens zipped with as many canonical words, one pair
\* of which has nothing in common (score 0).
C3_Witness ==
    /\ InSegmenter
    /\ Len(whisper_words) = Len(corrected_words)
    /\ Len(whisper_words) >= 2
    /\ \E i \in 1..Len(corrected_words) :
          /\ Score(whisper_words[i].word, corrected_words[i]) = ScoreNone
          /\ aligned_pairs[i].start = whisper_words[i].start

\* The tokens are ordered by start and by end, and none ends before it starts.
TokensOrdered ==
    /\ \A i \in 1..Len(whisper_words) : QLe(whisper_words[i].start, whisper_words[i].end)
    /\ \A i \in 1..(Len(whisper_words) - 1) :
          /\ QLe(whisper_words[i].start, whisper_words[i + 1].start)
          /\ QLe(whisper_words[i].end, whisper_words[i + 1].end)

\* C4: the cues of the phrase segmenter are in chronological order: no cue
\* starts before the cue in front of it.
C4_CuesChronological ==
    (InSegmenter /\ TokensOrdered) =>
        \A k \in 1..(Len(cues) - 1) : QLe(cues[k].start, cues[k + 1].start)

\* C5: the aligned words have non-decreasing start and non-decreasing end, the
\* tokens having both.
C5_AlignedTimesNonDecreasing ==
    (InSegmenter /\ TokensOrdered) =>
        \A i \in 1..(Len(aligned_pairs) - 1) :
            /\ QLe(aligned_pairs[i].start, aligned_pairs[i + 1].start)
            /\ QLe(aligned_pairs[i].end, aligned_pairs[i + 1].end)

\* C6: every cue of the phrase segmenter ends no earlier than it starts.
C6_CueEndNotBeforeStart ==
    (InSegmenter /\ TokensOrdered) => \A k \in 1..Len(cues) : QLe(cues[k].start, cues[k].end)

\* C7: the k-th cue has index k, in the cue list of the phrase segmenter, of the
\* segment-timing path, of the uniform fallback and of the placeholder, and so has
\* the k-th item of self.subs.
C7_IndicesSequential ==
    /\ \A k \in 1..Len(cues) : cues[k].index = k
    /\ Len(subs) = Len(cues)
    /\ \A k \in 1..Len(subs) : subs[k].index = k

\* C7 witness: the phrase segmenter has produced three cues or more.
C7_Witness ==
    /\ SegmenterDone
    /\ Len(cues) >= 3
    /\ cues[3].index = 3

\* C8: in both modes a word that ends in '.', '!', '?' or ':' is the last word of
\* its cue: no cue holds such a word before its last word.
C8_SentenceEndClosesCue ==
    InSegmenter =>
        \A k \in 1..Len(cues) :
            LET ws == Split(cues[k].text)
            IN  \A j \in 1..(Len(ws) - 1) : ~EndsWithAny(ws[j], SentenceEnd)

\* C8 witness: a cue closed by punctuation with fewer words than the mode allows,
\* followed by another cue.
C8_Witness ==
    /\ SegmenterDone
    /\ \E k \in 1..(Len(cues) - 1) :
          LET ws == Split(cues[k].text)
          IN  /\ Len(ws) >= 2
              /\ Len(ws) < MaxWordsPerCue
              /\ EndsWithAny(ws[Len(ws)], SentenceEnd)

\* C9: a cue holds between 1 and max words (4 in karaoke mode, 9 in chunk mode),
\* and fewer than max only if its last word ends a sentence or it is the cue that
\* consumed the last aligned word.
C9_CueSizeWithinMax ==
    InSegmenter =>
        \A k \in 1..Len(cues) :
            LET ws == Split(cues[k].text)
            IN  /\ Len(ws) >= 1
                /\ Len(ws) <= MaxWordsPerCue
                /\ Len(ws) < MaxWordsPerCue =>
                      \/ EndsWithAny(ws[Len(ws)], SentenceEnd)
                      \/ (k = Len(cues) /\ idx = Len(aligned_pairs))

\* C9 witness: chunk mode has produced a cue of 9 words and a shorter final cue
\* that no punctuation closes.
C9_Witness ==
    /\ SegmenterDone
    /\ ~karaoke_mode
    /\ Len(cues) >= 2
    /\ WordCount(cues, 1) = ChunkWordsPerChunk
    /\ WordCount(cues, Len(cues)) < ChunkWordsPerChunk
    /\ ~EndsWithAny(cues[Len(cues)].text, SentenceEnd)

\* C10: a cue starts with the first aligned word it accumulated, ends with the
\* last one, and its text is those words joined by single spaces.
C10_CueSpansItsWords ==
    InSegmenter =>
        \A k \in 1..Len(cues) :
            LET first == WordsBefore(cues, k) + 1
                last == WordsBefore(cues, k) + WordCount(cues, k)
            IN  /\ last <= Len(aligned_pairs)
                /\ cues[k].start = aligned_pairs[first].start
                /\ cues[k].end = aligned_pairs[last].end
                /\ cues[k].text = Join(AlignedTexts(SubSeq(aligned_pairs, first, last)))

\* C10 witness: a second cue of several words whose words differ in their times.
C10_Witness ==
    /\ SegmenterDone
    /\ Len(cues) >= 2
    /\ WordCount(cues, 2) >= 2
    /\ cues[2].start = aligned_pairs[WordsBefore(cues, 2) + 1].start
    /\ cues[2].end # aligned_pairs[WordsBefore(cues, 2) + 1].end

\* C11: generate_from_audio lets no exception out, whichever stage raises and
\* whatever the output path: it returns after cues were written to the file.
C11_NoExceptionLeavesGenerate ==
    /\ pc # "raised"
    /\ (pc = "returned" => file.saved)

\* C12: whenever generate_from_audio returns, the saved cue list has at least one
\* cue - with a script of no words, with an ASR result without segments and
\* words, and after the failure of any stage.
C12_ReturnedFileHasACue ==
    pc = "returned" => Len(file.items) >= 1

\* C13: for every script, every segment count N >= 0 and every outcome of the
\* request, _align_with_qwen returns without raising a list of exactly N
\* elements, each of them a string.
C13_AdapterReturnsNStrings ==
    /\ qwen.pc # "raised"
    /\ (qwen.pc = "returned" =>
            /\ Len(qwen.segments) = qwen.num_segments
            /\ \A k \in 1..Len(qwen.segments) : qwen.segments[k].type = "str")

\* The array of the answer can be read: it stands alone, within prose on its
\* line, or before lines of notes.
Parses(response) ==
    response.kind = "ok" /\ response.form \in {"plain", "prose", "trailing_note"}

\* The request failed, or its answer is malformed or of the wrong size.
AnswerRefused(q) == ~Parses(q.response) \/ Len(q.response.elems) # q.num_segments

\* C14: for N >= 1 and a script of W >= N words, the adapter takes the answer
\* only when an array of exactly N elements is read from it; after a parse
\* failure, a missing bracket, a wrong element count, a status other than 200, a
\* network error or a timeout it returns N contiguous chunks of the script's
\* words, floor(W/N) words in each of the first N-1 and the rest in the last.
C14_AnswerTakenOnlyWithNElements ==
    LET n == qwen.num_segments
        words == Split(qwen.original_script)
        W == Len(words)
        size == W \div n
    IN  (qwen.pc = "returned" /\ n >= 1 /\ W >= n) =>
            IF AnswerRefused(qwen)
            THEN /\ Len(qwen.segments) = n
                 /\ \A k \in 1..n :
                       /\ qwen.segments[k].type = "str"
                       /\ Split(qwen.segments[k].val) =
                            SubSeq(words, (k - 1) * size + 1, IF k = n THEN W ELSE k * size)
            ELSE qwen.segments = qwen.response.elems

\* C14 witness: asked for 2 segments of a 3-word script, the service answered
\* with 3 elements and the split of 1 and 2 words came back.
C14_Witness ==
    /\ qwen.pc = "returned"
    /\ qwen.num_segments = 2
    /\ Len(Split(qwen.original_script)) = 3
    /\ Parses(qwen.response)
    /\ Len(qwen.response.elems) = 3
    /\ Len(Split(qwen.segments[1].val)) = 1
    /\ Len(Split(qwen.segments[2].val)) = 2

\* C15: for every N >= 1 and every script, when the answer is malformed or of
\* the wrong size the adapter returns exactly N segments, each a non-empty
\* string, whose words in segment order are the words of the script - also when
\* the script has fewer than N words.
C15_FallbackSegmentsNonEmpty ==
    (qwen.pc = "returned" /\ qwen.num_segments >= 1 /\ qwen.response.kind = "ok"
        /\ AnswerRefused(qwen)) =>
        /\ Len(qwen.segments) = qwen.num_segments
        /\ \A k \in 1..Len(qwen.segments) :
              qwen.segments[k].type = "str" /\ qwen.segments[k].val # <<>>
        /\ Concat([k \in 1..Len(qwen.segments) |-> Split(qwen.segments[k].val)])
              = Split(qwen.original_script)

\* C16: a call of the adapter sends at most one request; once the request has
\* failed (the timeout included) the call is over - no second request is sent,
\* and what it returns is the fallback split.
C16_AtMostOneRequest ==
    /\ qwen.requests <= 1
    /\ (qwen.pc = "waiting" => qwen.requests = 1 /\ qwen.response = NoResponse)
    /\ (qwen.pc \in {"returned", "raised"} => qwen.requests = 1)
    /\ (qwen.pc = "returned" /\ qwen.response.kind # "ok" =>
            /\ Len(qwen.segments) = qwen.num_segments
            /\ Concat([k \in 1..Len(qwen.segments) |-> Split(qwen.segments[k].val)])
                  = Split(qwen.original_script))

\* C16 witness: the request timed out and the call returned after that one
\* request.
C16_Witness ==
    /\ qwen.pc = "returned"
    /\ qwen.response.kind = "timeout"
    /\ qwen.requests = 1
    /\ Len(qwen.segments) = 3

\* C17: for a text of W >= 1 words and a duration d the fallback yields
\* n = ceil(W/10) cues; cue k holds the words [10(k-1), min(10k, W)) and spans
\* [(k-1)d/n, kd/n]: the cues abut, all last d/n, the first starts at 0 and the
\* last ends at d.
C17_FallbackCuesUniform ==
    LET words == Split(FallbackText(original_script))
        W == Len(words)
        n == (W + FallbackWordsPerChunk - 1) \div FallbackWordsPerChunk
    IN  (strategy = "fallback" /\ pc = "returned" /\ W >= 1) =>
            /\ Len(cues) = n
            /\ \E d \in Durations :
                  \A k \in 1..n :
                     /\ Split(cues[k].text) =
                           SubSeq(words, FallbackWordsPerChunk * (k - 1) + 1,
                                  Min(FallbackWordsPerChunk * k, W))
                     /\ cues[k].start = Q((k - 1) * d.n, n * d.d)
                     /\ cues[k].end = Q(k * d.n, n * d.d)

\* C17 witness: a script of more than 10 words fell back to two cues over 10 s,
\* the second from 5 s to 10 s with the words after the tenth.
C17_Witness ==
    /\ strategy = "fallback"
    /\ pc = "returned"
    /\ Len(Split(FallbackText(original_script))) > FallbackWordsPerChunk
    /\ Len(cues) = 2
    /\ cues[2].start = QInt(5)
    /\ cues[2].end = QInt(10)
    /\ Len(Split(cues[1].text)) = FallbackWordsPerChunk

\* The aligner has returned to the segmenter with more canonical words than
\* tokens, of which there is at least one.
MoreWordsThanTokens ==
    InSegmenter /\ whisper_words # <<>> /\ Len(corrected_words) > Len(whisper_words)

\* The interpolated timing of the canonical word i (0-based):
\* first.start + i * tpw and one tpw more, tpw = (last.end - first.start) / W.
Interpolated(i) ==
    LET first == whisper_words[1].start
        last == whisper_words[Len(whisper_words)].end
        W == Len(corrected_words)
        span == QSub(last, first)
    IN  [start |-> QAdd(first, Q(i * span.n, span.d * W)),
         end |-> QAdd(first, Q((i + 1) * span.n, span.d * W))]

IsInterpolated(k) ==
    /\ aligned_pairs[k].start = Interpolated(k - 1).start
    /\ aligned_pairs[k].end = Interpolated(k - 1).end

TakesTokenTiming(k) ==
    \E j \in 1..Len(whisper_words) :
        /\ aligned_pairs[k].start = whisper_words[j].start
        /\ aligned_pairs[k].end = whisper_words[j].end

C19_EmptyTokensInterpolated ==
    (align_call.pc # "idle" /\ align_call.whisper_words = <<>>
        /\ align_call.corrected_words # <<>>) =>
        /\ align_call.pc = "returned"
        /\ Len(align_call.aligned) = Len(align_call.corrected_words)
        /\ \A k \in 1..Len(align_call.aligned) :
              /\ align_call.aligned[k].corrected_word = align_call.corrected_words[k]
              /\ align_call.aligned[k].start = align_call.aligned[k].end

\* Prefix, first three characters, and a word without the punctuation around
\* it, character by character.
IsPrefix(p, s) == Len(p) <= Len(s) /\ \A k \in 1..Len(p) : s[k] = p[k]

FirstThree(s) == [k \in 1..Min(3, Len(s)) |-> s[k]]

Unpunctuated(s) ==
    LET keep == {k \in 1..Len(s) : s[k] \notin StripSet}
    IN  IF keep = {} THEN <<>>
        ELSE SubSeq(s, CHOOSE k \in keep : \A m \in keep : k <= m,
                       CHOOSE k \in keep : \A m \in keep : k >= m)

\* C20: the score of a token and a canonical word is one of 0.0, 0.7 and 1.0
\* (in tenths here): 1.0 if the lower-cased token is the lower-cased canonical
\* word without its punctuation; otherwise 0.7 if the first three characters of
\* one are a prefix of the other; otherwise 0.0.
C20_ScoreFollowsPriorityRules ==
    scored # NoScore =>
        LET token == Lower(scored.whisper_word)
            word == Unpunctuated(Lower(scored.corrected_word))
        IN  /\ scored.similarity \in {0, 7, 10}
            /\ scored.similarity =
                  IF token = word THEN 10
                  ELSE IF IsPrefix(FirstThree(word), token) \/ IsPrefix(FirstThree(token), word)
                       THEN 7
                       ELSE 0

\* C20 witness: a token and a canonical word that share two leading characters
\* but not the third scored 0.0.
C20_Witness ==
    /\ scored.whisper_word = <<"A", "b", "x">>
    /\ scored.corrected_word = <<"a", "b", "y", "z">>
    /\ scored.similarity = 0

\* A direct call of the aligner that has walked the unequal-length path.
WalkedCall ==
    /\ align_call.pc = "returned"
    /\ Len(align_call.whisper_words) # Len(align_call.corrected_words)

\* The 0-based token positions the look-ahead may inspect from a cursor.
Window(cursor) ==
    {j \in 0..(Len(align_call.whisper_words) - 1) :
        cursor <= j /\ j < cursor + 3 /\ j < Len(align_call.whisper_words)}

\* The score of the token at the 0-based position j against the canonical
\* word k of the call.
CallScore(j, k) == Score(align_call.whisper_words[j + 1].word, align_call.corrected_words[k])

\* The token of the window of the highest score, the earliest on ties.
Selected(cursor, k) ==
    CHOOSE j \in Window(cursor) :
        \A m \in Window(cursor) :
            CallScore(j, k) > CallScore(m, k) \/ (CallScore(j, k) = CallScore(m, k) /\ j <= m)

\* The cursor in front of the canonical word k: 0 for the first word, the
\* cursor left by the word before otherwise.
CursorBefore(k) == IF k = 1 THEN 0 ELSE align_call.trace[k - 1].whisper_idx

\* The interpolated timing of the canonical word k of the call.
CallInterpolated(k) ==
    LET first == align_call.whisper_words[1].start
        last == align_call.whisper_words[Len(align_call.whisper_words)].end
        W == Len(align_call.corrected_words)
        span == QSub(last, first)
    IN  [start |-> QAdd(first, Q((k - 1) * span.n, span.d * W)),
         end |-> QAdd(first, Q(k * span.n, span.d * W))]

\* The canonical word k of the call has the timing of the token at j.
HasTokenTiming(k, j) ==
    /\ align_call.aligned[k].start = align_call.whisper_words[j + 1].start
    /\ align_call.aligned[k].end = align_call.whisper_words[j + 1].end

HasInterpolatedTiming(k) ==
    /\ align_call.aligned[k].start = CallInterpolated(k).start
    /\ align_call.aligned[k].end = CallInterpolated(k).end

\* C24: on the unequal-length path the aligner, for each canonical word,
\* looks only at the tokens at [cursor, min(cursor + 3, token count)), selects
\* the one of the highest score (the earliest on ties) and, if that score is
\* above 0.5, gives the word that token's start and end and moves the cursor
\* just past it; otherwise the word is interpolated and the cursor stays.
C24_WindowSelection ==
    WalkedCall =>
        /\ Len(align_call.trace) = Len(align_call.corrected_words)
        /\ \A k \in 1..Len(align_call.corrected_words) :
              LET cursor == align_call.trace[k].cursor
              IN  /\ cursor = CursorBefore(k)
                  /\ IF Window(cursor) # {}
                        /\ CallScore(Selected(cursor, k), k) > MatchThreshold
                     THEN /\ HasTokenTiming(k, Selected(cursor, k))
                          /\ align_call.trace[k].whisper_idx = Selected(cursor, k) + 1
                     ELSE /\ HasInterpolatedTiming(k)
                          /\ align_call.trace[k].whisper_idx = cursor

\* C24 witness: on four tokens a canonical word that only the fourth token
\* matches is interpolated with the cursor at 0, and another word takes the
\* first of several tokens that equal it.
C24_Witness ==
    /\ WalkedCall
    /\ Len(align_call.whisper_words) = 4
    /\ \E k \in 1..Len(align_call.corrected_words) :
          /\ align_call.trace[k].cursor = 0
          /\ align_call.trace[k].whisper_idx = 0
          /\ CallScore(3, k) > MatchThreshold
          /\ HasInterpolatedTiming(k)
    /\ \E k \in 1..Len(align_call.corrected_words) :
          /\ align_call.trace[k].whisper_idx = align_call.trace[k].cursor + 1
          /\ CallScore(align_call.trace[k].cursor, k) = ScoreExact
          /\ \E m \in Window(align_call.trace[k].cursor) :
                /\ m > align_call.trace[k].cursor
                /\ CallScore(m, k) = CallScore(align_call.trace[k].cursor, k)

\* The canonical words of the call that took the timing of a token, and the
\* 0-based position of the token a word took.
MatchedWords == {k \in 1..Len(align_call.trace) : align_call.trace[k].matched}

TokenOf(k) == align_call.trace[k].whisper_idx - 1

\* C27: the positions of the tokens that supply timing strictly increase with
\* the canonical words, so no token is used twice; the cursor never decreases
\* and never exceeds the token count; once it has reached the token count every
\* remaining word is interpolated.
C27_CursorMonotone ==
    WalkedCall =>
        /\ \A k \in MatchedWords : HasTokenTiming(k, TokenOf(k))
        /\ \A k, m \in MatchedWords : k < m => TokenOf(k) < TokenOf(m)
        /\ \A k \in 1..Len(align_call.trace) :
              /\ align_call.trace[k].cursor = CursorBefore(k)
              /\ align_call.trace[k].cursor <= align_call.trace[k].whisper_idx
              /\ align_call.trace[k].whisper_idx <= Len(align_call.whisper_words)
              /\ align_call.trace[k].cursor = Len(align_call.whisper_words) =>
                    \A m \in k..Len(align_call.trace) :
                        /\ m \notin MatchedWords
                        /\ HasInterpolatedTiming(m)

\* C27 witness: two canonical words take the second and the fourth of four
\* tokens, the cursor reaches the token count and the word after them is
\* interpolated.
C27_Witness ==
    /\ WalkedCall
    /\ Len(align_call.whisper_words) = 4
    /\ Len(align_call.trace) = 3
    /\ MatchedWords = {1, 2}
    /\ TokenOf(1) = 1
    /\ TokenOf(2) = 3
    /\ align_call.trace[3].cursor = 4
    /\ HasInterpolatedTiming(3)

\* C30: a canonical word takes the timing of a token only if, lower-cased and
\* without the punctuation around the canonical word, the two are equal or
\* share at least one leading character; a punctuation-only canonical word and
\* an empty token never match.
C30_MatchSharesLeadingCharacter ==
    /\ WalkedCall =>
          \A k \in MatchedWords :
              LET token == Lower(align_call.whisper_words[TokenOf(k) + 1].word)
                  word == Unpunctuated(Lower(align_call.corrected_words[k]))
              IN  /\ token # <<>>
                  /\ word # <<>>
                  /\ token = word \/ token[1] = word[1]
    /\ (scored # NoScore /\ scored.similarity > MatchThreshold) =>
          /\ Lower(scored.whisper_word) # <<>>
          /\ Unpunctuated(Lower(scored.corrected_word)) # <<>>

\* The segmenter loop of either mode is running.
InLoop == pc \in {"karaoke_loop", "chunk_loop"}

\* C25: the segmenter loop terminates in both modes: every iteration moves the
\* word cursor strictly forward and adds at most one cue, the cursor never
\* passes the number of aligned words, the loop is left exactly when the cursor
\* has reached it, and the cues never outnumber the words consumed.
C25_SegmenterLoopTerminates ==
    [][/\ (InLoop /\ pc' = pc) =>
            /\ idx < Len(aligned_pairs)
            /\ idx' > idx
            /\ aligned_pairs' = aligned_pairs
            /\ Len(cues') <= Len(cues) + 1
       /\ (InLoop /\ pc' # pc) => (pc' = "save" /\ idx = Len(aligned_pairs))
       /\ (InLoop' \/ SegmenterDone') =>
            /\ idx' <= Len(aligned_pairs')
            /\ Len(cues') <= idx'
            /\ Len(cues') <= Len(aligned_pairs')
       /\ SegmenterDone' => idx' = Len(aligned_pairs')]_vars

\* C25 witness: the loop has ended after several iterations, with fewer cues
\* than aligned words and every aligned word consumed.
C25_Witness ==
    /\ SegmenterDone
    /\ idx = Len(aligned_pairs)
    /\ Len(cues) >= 3
    /\ Len(cues) < Len(aligned_pairs)

\* C26: when a call of generate_from_audio is over - the first on the generator
\* or a later one - self.subs holds the cues of that call and no other.
C26_SubsOfMostRecentCall ==
    pc \in {"returned", "raised"} => subs = ItemsOf(cues)

\* C26 witness: a later call on the generator has returned with its own cues.
C26_Witness ==
    /\ earlier_call
    /\ pc = "returned"
    /\ strategy = "words"
    /\ Len(subs) = 1
    /\ WordCount(cues, 1) = 2
    /\ subs = ItemsOf(cues)

\* C28: the fallback chain is ordered: the uniform fallback starts only from a
\* primary path that raised without saving, the last resort only from a uniform
\* fallback that raised, and the file a call returns with holds the cues of one
\* strategy only: the primary cue list, the uniform cues of the script for one
\* duration, or the placeholder cue alone.
C28_FallbackChainOrdered ==
    [][/\ (pc' = "fallback" /\ pc # "fallback") =>
            (pc \in {"idle", "save"} /\ ~file.saved /\ file' = file)
       /\ (strategy' = "fallback" /\ strategy # "fallback") => pc = "fallback"
       /\ (pc' = "last_resort" /\ pc # "last_resort") => (pc = "fallback" /\ file' = file)
       /\ (strategy' = "placeholder" /\ strategy # "placeholder") => pc = "last_resort"
       /\ (pc' = "returned" /\ pc # "returned") =>
            /\ file'.saved
            /\ file'.items = subs'
            /\ \/ /\ pc = "save"
                  /\ strategy' \in {"words", "segments"}
                  /\ file'.items = ItemsOf(cues)
               \/ /\ pc = "fallback"
                  /\ strategy' = "fallback"
                  /\ \E duration \in Durations :
                        file'.items =
                            ItemsOf(FallbackCues(FallbackText(original_script), duration))
               \/ /\ pc = "last_resort"
                  /\ strategy' = "placeholder"
                  /\ Len(file'.items) = 1
                  /\ file'.items[1].text = PlaceholderText]_vars

\* C28 witness: with a script of more words than one cue shows, the call went
\* down the whole chain and returned with the placeholder cue alone in the file.
C28_Witness ==
    /\ pc = "returned"
    /\ strategy = "placeholder"
    /\ original_script.kind = "str"
    /\ Len(Split(original_script.text)) > MaxWords
    /\ file.saved
    /\ Len(file.items) = 1

\* The segment-timing path has filled self.subs in the running call.
OnSegmentTiming == strategy = "segments" /\ pc \in {"save", "returned"}

\* C29: on the segment-timing path, in either mode, the cue of segment i
\* (0-based) holds the canonical words [9i, min(9i + 9, W)) with the start and
\* end of that segment; the words of the cues, in order, are the first
\* min(W, 9 * S) canonical words, so that there are at most S cues and no word
\* at 9 * S or beyond is shown.
C29_SegmentTimingCues ==
    OnSegmentTiming =>
        LET segs == whisper_result.segments
            S == Len(segs)
            W == Len(corrected_words)
        IN  /\ Len(cues) <= S
            /\ \A i \in 0..(S - 1) :
                  9 * i < W =>
                      /\ i + 1 <= Len(cues)
                      /\ Split(cues[i + 1].text) =
                            SubSeq(corrected_words, 9 * i + 1, Min(9 * i + 9, W))
                      /\ cues[i + 1].start = segs[i + 1].start
                      /\ cues[i + 1].end = segs[i + 1].end
            /\ \A k \in 1..Len(cues) : 9 * (k - 1) < W
            /\ CueWords(cues) = SubSeq(corrected_words, 1, Min(W, 9 * S))

\* C29 witness: one segment and eleven canonical words in karaoke mode: one cue
\* of nine words, the last two words in no cue.
C29_Witness ==
    /\ OnSegmentTiming
    /\ karaoke_mode
    /\ pc = "returned"
    /\ Len(whisper_result.segments) = 1
    /\ Len(corrected_words) = 11
    /\ Len(cues) = 1
    /\ WordCount(cues, 1) = 9

\* C23: align_subtitles keeps the timeline: the file it saves has as many cues
\* as the file it opened, each with the index, start and end it had; cue i has
\* the text of segment i of the N segments of the adapter, N the number of
\* cues. When the adapter raises, nothing is saved and the file is as it was.
C23_TimelineKept ==
    /\ qwen.pc = "returned" =>
          /\ Len(qwen.saved) = Len(qwen.loaded)
          /\ Len(qwen.segments) = Len(qwen.loaded)
          /\ \A i \in 1..Len(qwen.loaded) :
                /\ qwen.saved[i].index = qwen.loaded[i].index
                /\ qwen.saved[i].start = qwen.loaded[i].start
                /\ qwen.saved[i].end = qwen.loaded[i].end
                /\ qwen.saved[i].text = qwen.segments[i]
    /\ qwen.pc \in {"waiting", "raised"} => qwen.saved = qwen.loaded

\* C23 witness: a file of three cues came back with three new texts, the last
\* of them empty, and its third cue still runs from 2 s to 3 s.
C23_Witness ==
    /\ qwen.pc = "returned"
    /\ Len(qwen.loaded) = 3
    /\ Len(qwen.saved) = 3
    /\ \A i \in 1..3 : qwen.saved[i].text # qwen.loaded[i].text
    /\ qwen.saved[3].text.val = <<>>
    /\ qwen.saved[3].start = SubRipTime(0, 0, 2, 0)
    /\ qwen.saved[3].end = SubRipTime(0, 0, 3, 0)

\* The phrase occurs in the text, whatever the case of the letters.
ContainsPhrase(text, phrase) ==
    \E k \in 0..(Len(text) - Len(phrase)) :
        \A j \in 1..Len(phrase) : LowerChar(text[k + j]) = LowerChar(phrase[j])

\* C21: the intro is put in front of the reconstructed text exactly when the
\* text does not contain it, the outro behind it exactly when the text does not
\* contain it, letter case aside; the text returned contains both, and the
\* check applied to it returns it unchanged.
C21_FixedPhrasesAddedWhenAbsent ==
    script_aligner.op = "ensure_intro_outro" =>
        LET text == script_aligner.text
            intro == script_aligner.intro
            outro == script_aligner.outro
        IN  /\ script_aligner.ensured =
                  (IF ContainsPhrase(text, intro) THEN <<>> ELSE intro \o <<" ">>)
                  \o text
                  \o (IF ContainsPhrase(text, outro) THEN <<>> ELSE <<" ">> \o outro)
            /\ ContainsPhrase(script_aligner.ensured, intro)
            /\ ContainsPhrase(script_aligner.ensured, outro)
            /\ script_aligner.again = script_aligner.ensured

\* C21 witness: the text holds the intro in other letters and lacks the outro:
\* only the outro is added.
C21_Witness ==
    /\ script_aligner.op = "ensure_intro_outro"
    /\ script_aligner.text = <<"a", "b", " ", "x">>
    /\ script_aligner.intro = <<"A", "b">>
    /\ script_aligner.outro = <<"c">>
    /\ script_aligner.ensured = <<"a", "b", " ", "x", " ", "c">>

\* The text of the window of n canonical words from the 0-based position i.
WindowText(original_words, i, n) == Join(SubSeq(original_words, i + 1, i + n))

\* The positions of the windows a chunk of chunk_words may be replaced with:
\* the first window among those of the highest ratio, if that ratio is at
\* least 0.6.
ReplacingWindows(chunk_words, original_words) ==
    LET n == Len(chunk_words)
        starts == 0..(Len(original_words) - n)
        ratio(i) == Similarity(Join(chunk_words), WindowText(original_words, i, n))
    IN  {i \in starts :
            /\ QLe(Q(6, 10), ratio(i))
            /\ \A j \in starts : QLe(ratio(j), ratio(i))
            /\ \A j \in starts : j < i => QLt(ratio(j), ratio(i))}

\* C22: align_subtitle_chunks returns as many chunks as it was given, in the
\* same order and with the same start and end; the text of a chunk becomes the
\* text of the first window of as many canonical words that has the highest
\* ratio, if that ratio is at least 0.6, and stays as it is otherwise - without
\* a script, with fewer canonical words than the chunk has, with no word in
\* the chunk.
C22_ChunksKeepTiming ==
    script_aligner.op = "align_subtitle_chunks" =>
        LET given == script_aligner.subtitle_chunks
            out == script_aligner.corrected_chunks
            script == script_aligner.original_script
            original_words == IF script.kind = "none" THEN <<>> ELSE Split(script.text)
        IN  /\ Len(out) = Len(given)
            /\ \A k \in 1..Len(given) :
                  LET chunk_words == Split(given[k].text)
                      windows == ReplacingWindows(chunk_words, original_words)
                  IN  /\ out[k].start = given[k].start
                      /\ out[k].end = given[k].end
                      /\ out[k].text =
                            IF script.kind # "none" /\ chunk_words # <<>> /\ windows # {}
                            THEN WindowText(original_words, CHOOSE i \in windows : TRUE,
                                            Len(chunk_words))
                            ELSE given[k].text

\* C22 witness: of two chunks the first takes the text of the third window of
\* two canonical words, the one of the highest ratio, and the second, which no
\* window resembles enough, keeps its text; both keep their timing.
C22_Witness ==
    /\ script_aligner.op = "align_subtitle_chunks"
    /\ Len(script_aligner.subtitle_chunks) = 2
    /\ Split(script_aligner.original_script.text) =
          <<<<"A", "b", ".">>, <<"c">>, <<"a", "b">>, <<"c", "x">>>>
    /\ script_aligner.subtitle_chunks[1].text = <<" ", "A", "b", " ", " ", "c", "x", " ">>
    /\ script_aligner.corrected_chunks[1].text = <<"a", "b", " ", "c", "x">>
    /\ script_aligner.subtitle_chunks[2].text = <<"b", "x", " ", "x", "a">>
    /\ script_aligner.corrected_chunks[2].text = <<"b", "x", " ", "x", "a">>
    /\ script_aligner.corrected_chunks[2].start = QInt(1)
    /\ script_aligner.corrected_chunks[2].end = QInt(2)

====
